---- MODULE Spec2Model ----
(***************************************************************************)
(* spacemap: the scan-time aggregation engine.                             *)
(*   bounded_heap.rs       BoundedMinHeap (top-N selector)                 *)
(*   path_pool.rs          PathPool (path interning)                       *)
(*   collector.rs          SinglePassCollector (single-pass aggregator)    *)
(*   sharded_collector.rs  ShardedCollector (shards + reduction)           *)
(*   parallel_scanner.rs   ParallelScanner (fold / reduce over workers)    *)
(*   duplicates.rs         DuplicateFinder (staged hashing)                *)
(***************************************************************************)
EXTENDS Bags, FiniteSets, Integers, Sequences, TLC

VARIABLES
    \* BoundedMinHeap<i32> driven by pushes (bounded_heap.rs)
    iheap,        \* [heap: bag of items, capacity: Nat]
    pushed,       \* history: the values pushed so far, in order
    dropped,      \* history: bag of the items discarded or evicted by push
    drained,      \* [done: BOOLEAN, vec: Seq]: the result of into_sorted_vec
    \* one SinglePassCollector driven by process_file (collector.rs)
    collector,    \* the SinglePassCollector
    fed,          \* history: the FileMetadata passed to process_file, in order
    finalized,    \* [done: BOOLEAN, results: CollectionResults]
    \* one ShardedCollector and the handles to its shards (sharded_collector.rs)
    shards,       \* Vec<Arc<Mutex<SinglePassCollector>>>: the collector of each shard
    handles,      \* per shard, the Arc clones get_shard handed out and not yet dropped
    shardFed,     \* history: per shard, the FileMetadata it processed, in order
    sharded,      \* [status: "open" | "done" | "panicked", results: CollectionResults]
    \* one ParallelScanner::scan with main's callback (parallel_scanner.rs, main.rs)
    config,       \* [exclude_patterns, top_n, should_collect_tops, find_duplicates]
    walk,         \* the entries the walker yields: path -> [kind, size]
    pending,      \* the paths whose entry no worker has taken yet
    states,       \* per worker, its ThreadState (fold), later merged (reduce)
    live,         \* the workers whose ThreadState is not yet merged into another
    foldedBy,     \* history: path -> the worker that took its entry
    warnings,     \* the shared Vec<Warning>
    finder,       \* the DuplicateFinder: [size_groups: size -> Vec of paths]
    scan,         \* [done: BOOLEAN, stats: ScanStats, collector]
    \* the files find_duplicates reads, and its result (duplicates.rs)
    disk,         \* path -> the content of the file at that path
    duplicates,   \* [done, groups: Vec<DuplicateGroup>, and the history of the reads:
                  \*  the paths each hash was computed for (tried), and with success (ok)]
    \* one PathPool driven by intern and get (path_pool.rs)
    pathPool,     \* the PathPool: [paths: Vec, index: path -> id]
    interned,     \* history: per intern call, [path, id, changed: the pool changed]
    lookup,       \* [done, id, len, result]: the last get call, the pool's len then, the result
    \* one SizeCategorizer and a call of categorize (categorize.rs)
    custom_buckets,   \* the Option<Vec<u64>> given to SizeCategorizer::new
    sizeCategorizer,  \* the SizeCategorizer: [buckets: Vec<(u64, String)>]
    categorized       \* [status: "none" | "ok" | "panicked", size, label]

heapVars == <<iheap, pushed, dropped, drained>>
collVars == <<collector, fed, finalized>>
shardVars == <<shards, handles, shardFed, sharded>>
scanVars == <<config, walk, pending, states, live, foldedBy, warnings, scan>>
dupVars == <<finder, disk, duplicates>>
poolVars == <<pathPool, interned, lookup>>
sizeVars == <<custom_buckets, sizeCategorizer, categorized>>
vars == <<iheap, pushed, dropped, drained, collector, fed, finalized,
          shards, handles, shardFed, sharded,
          config, walk, pending, states, live, foldedBy, warnings, scan, finder,
          disk, duplicates, pathPool, interned, lookup,
          custom_buckets, sizeCategorizer, categorized>>

(***************************************************************************)
(* Bounds                                                                  *)
(***************************************************************************)
MaxCapacity == 3
MaxPushes == 5
\* the values pushed into the integer heap
HeapValues == {1, 2, 5, 8, 10}
\* file sizes are 1..MaxSize, top_n is 0..MaxTopN, at most MaxFiles files are processed
MaxSize == 2
MaxTopN == 2
MaxFiles == 3
\* a ShardedCollector has 0..MaxShards shards, which process at most MaxShardFiles
\* files in all; at most MaxHandles handles are out at once
MaxShards == 2
MaxShardFiles == 2
MaxHandles == 1
\* a PathPool gets at most MaxInterns intern calls
MaxInterns == 4
\* a custom boundary list has at most MaxBounds elements
MaxBounds == 3
\* the fold of a parallel scan runs NumWorkers thread-local states
NumWorkers == 2

(***************************************************************************)
(* Generic helpers                                                         *)
(***************************************************************************)
Min2(a, b) == IF a <= b THEN a ELSE b

BagOf(x) == SetToBag({x})

RECURSIVE SeqToBag(_)
SeqToBag(s) == IF s = <<>> THEN EmptyBag ELSE BagOf(Head(s)) (+) SeqToBag(Tail(s))

\* every sequence that lists the elements of bag b, each as often as b holds it
RECURSIVE BagOrders(_)
BagOrders(b) ==
    IF BagToSet(b) = {} THEN {<<>>}
    ELSE UNION { { <<x>> \o t : t \in BagOrders(b (-) BagOf(x)) } : x \in BagToSet(b) }

(***************************************************************************)
(* bounded_heap.rs: BoundedMinHeap<T: Ord>                                 *)
(* An item is a record with a field size, the key T's Ord compares         *)
(* (collector.rs orders FileWithSize and DirWithSize by size alone; an i32 *)
(* n is the item [size |-> n]).  BinaryHeap<Reverse<T>> is the bag of its  *)
(* items: peek/pop give a least item, and which one among equal least      *)
(* items is left open.                                                     *)
(***************************************************************************)
IntItem(n) == [size |-> n]

HeapNew(capacity) == [heap |-> EmptyBag, capacity |-> capacity]

HeapLen(h) == BagCardinality(h.heap)

HeapIsEmpty(h) == BagToSet(h.heap) = {}

\* heap.peek(): the least items of the heap (empty set: None)
HeapPeek(h) == { m \in BagToSet(h.heap) : \A o \in BagToSet(h.heap) : m.size <= o.size }

\* a replacement that evicts a greatest item of the heap
HeapPopPushGreatest(h, item) ==
    { [h EXCEPT !.heap = (@ (-) BagOf(m)) (+) BagOf(item)] :
        m \in { x \in BagToSet(h.heap) : \A o \in BagToSet(h.heap) : x.size >= o.size } }

\* heap.pop() followed by heap.push(item), for each item pop may remove
HeapPopPush(h, item) ==
    { [h EXCEPT !.heap = (@ (-) BagOf(m)) (+) BagOf(item)] : m \in HeapPeek(h) }

\* a push that evicts the minimum also for an item equal to it
HeapPushEvictsOnTie(h, item) ==
    IF HeapLen(h) < h.capacity
    THEN { [h EXCEPT !.heap = @ (+) BagOf(item)] }
    ELSE IF HeapPeek(h) # {}
         THEN IF \E m \in HeapPeek(h) : item.size >= m.size
              THEN HeapPopPush(h, item)
              ELSE {h}
         ELSE {h}

\* a push that admits one item more than the capacity before it evicts
HeapPushOffByOne(h, item) ==
    IF HeapLen(h) <= h.capacity
    THEN { [h EXCEPT !.heap = @ (+) BagOf(item)] }
    ELSE IF HeapPeek(h) # {}
         THEN IF \E m \in HeapPeek(h) : item.size > m.size
              THEN HeapPopPush(h, item)
              ELSE {h}
         ELSE {h}

\* BoundedMinHeap::push: the heaps the push may leave
HeapPush(h, item) ==
    IF HeapLen(h) < h.capacity
    THEN { [h EXCEPT !.heap = @ (+) BagOf(item)] }
    ELSE IF HeapPeek(h) # {}
         THEN IF \E m \in HeapPeek(h) : item.size > m.size
              THEN HeapPopPush(h, item)
              ELSE {h}
         ELSE {h}

\* a drain that returns the items in ascending order
IntoSortedVecAscending(h) ==
    { s \in BagOrders(h.heap) :
        \A i \in 1..Len(s), j \in 1..Len(s) : i < j => s[i].size <= s[j].size }

\* BoundedMinHeap::into_sorted_vec: collect in the heap's internal order, then
\* sort_by(b.cmp(a)); the vectors the call may return
IntoSortedVec(h) ==
    { s \in BagOrders(h.heap) :
        \A i \in 1..Len(s), j \in 1..Len(s) : i < j => s[i].size >= s[j].size }

\* every heap that pushing all of items, in any order, may leave
RECURSIVE HeapPushAll(_, _)
HeapPushAll(h, items) ==
    IF BagToSet(items) = {} THEN {h}
    ELSE UNION { UNION { HeapPushAll(h2, items (-) BagOf(x)) : h2 \in HeapPush(h, x) }
                 : x \in BagToSet(items) }

(***************************************************************************)
(* Maps (HashMap) and options                                              *)
(***************************************************************************)
EmptyMap == <<>>

MapPut(m, k, v) == [x \in (DOMAIN m) \cup {k} |-> IF x = k THEN v ELSE m[x]]

MapGetOr(m, k, default) == IF k \in DOMAIN m THEN m[k] ELSE default

RECURSIVE SumOver(_, _)
\* the sum of f[x] over the set keys
SumOver(f, keys) ==
    IF keys = {} THEN 0
    ELSE LET k == CHOOSE x \in keys : TRUE IN f[k] + SumOver(f, keys \ {k})

RECURSIVE SumSeq(_)
SumSeq(s) == IF s = <<>> THEN 0 ELSE Head(s) + SumSeq(Tail(s))

\* Option<T>: None is {}, Some(x) is {x}
None == {}
Some(x) == {x}

(***************************************************************************)
(* types.rs: FileMetadata.  A path is <<directory, file name>>; the        *)
(* extension is the one the scanners derive from the file name.  The       *)
(* directory /a/s is a subdirectory of /a.                                 *)
(***************************************************************************)
Dirs == {"/a", "/a/s", "/b"}
FileNames == {"x.rs", "y.py", "z.txt"}
AllPaths == {<<"/a", "x.rs">>, <<"/a", "y.py">>, <<"/b", "z.txt">>, <<"/a/s", "x.rs">>}
Sizes == 1..MaxSize

\* entry.path().extension(), lowercased
ExtensionOf(path) ==
    CASE path[2] = "x.rs" -> Some("rs")
      [] path[2] = "y.py" -> Some("py")
      [] path[2] = "z.txt" -> Some("txt")
      [] OTHER -> None

\* Path::parent() of a file path
ParentOf(path) == IF Len(path) >= 2 THEN Some(path[1]) ELSE None

FileMeta(path, size) == [path |-> path, size |-> size, extension |-> ExtensionOf(path)]

AllFileMeta == { FileMeta(p, sz) : p \in AllPaths, sz \in Sizes }

\* the sizes of a sequence of FileMetadata
SizesOf(metas) == [i \in 1..Len(metas) |-> metas[i].size]

(***************************************************************************)
(* categorize.rs: TypeCategorizer                                          *)
(***************************************************************************)
\* build_default_map, restricted to the extensions of FileNames
ExtensionMap == [rs |-> "Code", py |-> "Code", txt |-> "Documents"]

\* TypeCategorizer::categorize
Categorize(metadata) ==
    IF metadata.extension # None /\ (\E e \in metadata.extension : e \in DOMAIN ExtensionMap)
    THEN ExtensionMap[CHOOSE e \in metadata.extension : TRUE]
    ELSE "Other"

\* TypeCategorizer::get_label
GetLabel(key) == key

(***************************************************************************)
(* categorize.rs: SizeCategorizer                                          *)
(***************************************************************************)
\* the boundaries a custom list is made of, and the sizes categorize is given
BoundValues == {0, 2, 4}
SizeInputs == {0, 1, 2, 3, 4, 5, 1023, 1024, 10240, 1073741824}

\* the lists over BoundValues of at most MaxBounds elements
RECURSIVE BoundLists(_)
BoundLists(n) ==
    IF n = 0 THEN {<<>>}
    ELSE BoundLists(n - 1)
           \cup { Append(l, b) : l \in { x \in BoundLists(n - 1) : Len(x) = n - 1 },
                                 b \in BoundValues }

\* bounds.sort_unstable(); bounds.dedup(): the elements of bounds, ascending, each once
RECURSIVE SortDedup(_)
SortDedup(values) ==
    IF values = {} THEN <<>>
    ELSE LET least == CHOOSE v \in values : \A o \in values : v <= o
         IN  <<least>> \o SortDedup(values \ {least})

\* format!("{}+ bytes", size)
BytesLabel(size) == <<size, "+ bytes">>

\* SizeCategorizer::create_buckets
CreateBuckets(bounds) ==
    LET sorted == SortDedup({ bounds[i] : i \in 1..Len(bounds) })
    IN  [i \in 1..Len(sorted) |-> <<sorted[i], BytesLabel(sorted[i])>>]

\* the default buckets of SizeCategorizer::new
DefaultBuckets ==
    << <<0, "0-1 KiB">>, <<1024, "1-10 KiB">>, <<10 * 1024, "10-100 KiB">>,
       <<100 * 1024, "100 KiB-1 MiB">>, <<1024 * 1024, "1-10 MiB">>,
       <<10 * 1024 * 1024, "10-100 MiB">>, <<100 * 1024 * 1024, "100 MiB-1 GiB">>,
       <<1024 * 1024 * 1024, "1+ GiB">> >>

\* SizeCategorizer::new
SizeCategorizerNew(custom) ==
    [buckets |-> IF custom # None
                 THEN CreateBuckets(CHOOSE b \in custom : TRUE)
                 ELSE DefaultBuckets]

\* SizeCategorizer::find_bucket: the label returned, or a panic when the
\* fallback indexes an empty Vec
FindBucket(sc, size) ==
    LET hits == { i \in 1..Len(sc.buckets) : size >= sc.buckets[i][1] }
    IN  IF hits # {}
        THEN [status |-> "ok",
              label |-> sc.buckets[CHOOSE i \in hits : \A j \in hits : i >= j][2]]
        ELSE IF Len(sc.buckets) > 0
             THEN [status |-> "ok", label |-> sc.buckets[1][2]]
             ELSE [status |-> "panicked", label |-> ""]

(***************************************************************************)
(* path_pool.rs: PathPool                                                  *)
(***************************************************************************)
PoolNew == [paths |-> <<>>, index |-> EmptyMap]

\* the paths a pool is given
PoolPaths == {"/a", "/a/s", "/b"}

\* an intern that stores the path without looking it up
PoolInternAlways(pool, path) ==
    LET id == Len(pool.paths)
    IN  [id |-> id,
         pool |-> [paths |-> Append(pool.paths, path),
                   index |-> MapPut(pool.index, path, id)]]

\* a get that takes the id as a 1-based position
PoolGetOneBased(pool, id) ==
    IF id \in 1..Len(pool.paths) THEN Some(pool.paths[id]) ELSE None

\* PathPool::intern: the id and the pool after the call (ids are 0-based)
PoolIntern(pool, path) ==
    IF path \in DOMAIN pool.index
    THEN [id |-> pool.index[path], pool |-> pool]
    ELSE LET id == Len(pool.paths)
         IN  [id |-> id,
              pool |-> [paths |-> Append(pool.paths, path),
                        index |-> MapPut(pool.index, path, id)]]

\* PathPool::get
PoolGet(pool, id) ==
    IF id + 1 \in 1..Len(pool.paths) THEN Some(pool.paths[id + 1]) ELSE None

PoolLen(pool) == Len(pool.paths)

(***************************************************************************)
(* collector.rs: SinglePassCollector                                       *)
(***************************************************************************)
FileWithSize(path, size) == [path |-> path, size |-> size]

DirWithSize(path, size) == [path |-> path, size |-> size]

\* SinglePassCollector::new
CollectorNew(top_n, should_collect_tops) ==
    [category_stats |-> EmptyMap,
     top_files_heap |-> HeapNew(top_n),
     dir_accumulator |-> EmptyMap,
     path_pool |-> PoolNew,
     top_n |-> top_n,
     should_collect_tops |-> should_collect_tops]

\* a step 1 that overwrites the category's entry instead of adding to it
AddToCategoryOverwrite(stats, category, size) ==
    MapPut(stats, category, <<size, 1>>)

\* step 1 of process_file: category_stats.entry(category).or_insert((0, 0)), then add
AddToCategory(stats, category, size) ==
    LET entry == MapGetOr(stats, category, <<0, 0>>)
    IN  MapPut(stats, category, <<entry[1] + size, entry[2] + 1>>)

\* a step 3 that overwrites the parent's total instead of adding to it
AccumulateDirOverwrite(c, metadata) ==
    IF ParentOf(metadata.path) = None THEN c
    ELSE LET parent == CHOOSE d \in ParentOf(metadata.path) : TRUE
             r == PoolIntern(c.path_pool, parent)
         IN  [c EXCEPT !.path_pool = r.pool,
                       !.dir_accumulator = MapPut(@, r.id, metadata.size)]

\* step 3 of process_file: intern the parent and add size to its total
AccumulateDir(c, metadata) ==
    IF ParentOf(metadata.path) = None THEN c
    ELSE LET parent == CHOOSE d \in ParentOf(metadata.path) : TRUE
             r == PoolIntern(c.path_pool, parent)
         IN  [c EXCEPT !.path_pool = r.pool,
                       !.dir_accumulator =
                           MapPut(@, r.id, MapGetOr(@, r.id, 0) + metadata.size)]

\* a process_file that runs steps 2 and 3 whatever the flag
ProcessFileAlwaysTops(c, metadata) ==
    LET c1 == [c EXCEPT !.category_stats =
                   AddToCategory(@, Categorize(metadata), metadata.size)]
    IN  { AccumulateDir([c1 EXCEPT !.top_files_heap = h2], metadata) :
            h2 \in HeapPush(c.top_files_heap, FileWithSize(metadata.path, metadata.size)) }

\* SinglePassCollector::process_file: the collectors the call may leave
ProcessFile(c, metadata) ==
    LET c1 == [c EXCEPT !.category_stats =
                   AddToCategory(@, Categorize(metadata), metadata.size)]
    IN  IF c.should_collect_tops
        THEN { AccumulateDir([c1 EXCEPT !.top_files_heap = h2], metadata) :
                 h2 \in HeapPush(c.top_files_heap,
                                 FileWithSize(metadata.path, metadata.size)) }
        ELSE {c1}

\* percent of a bucket, as the exact ratio num / den (0 when total_bytes is 0)
Percent(bytes, total_bytes) ==
    IF total_bytes > 0 THEN [num |-> bytes * 100, den |-> total_bytes]
    ELSE [num |-> 0, den |-> 1]

\* a bucket whose bytes is the entry's count and whose file_count is its bytes
BucketSwapped(c, key, total_bytes) ==
    [key |-> key, label |-> GetLabel(key),
     bytes |-> c.category_stats[key][2],
     percent |-> Percent(c.category_stats[key][1], total_bytes),
     file_count |-> c.category_stats[key][1]]

Bucket(c, key, total_bytes) ==
    [key |-> key, label |-> GetLabel(key),
     bytes |-> c.category_stats[key][1],
     percent |-> Percent(c.category_stats[key][1], total_bytes),
     file_count |-> c.category_stats[key][2]]

\* buckets that are built only when the tops are collected
FinalizeBucketsOfTops(c, total_bytes) ==
    IF c.should_collect_tops
    THEN { s \in BagOrders(SetToBag({ Bucket(c, k, total_bytes) : k \in DOMAIN c.category_stats })) :
             \A i \in 1..Len(s), j \in 1..Len(s) : i < j => s[i].bytes >= s[j].bytes }
    ELSE {<<>>}

\* the bucket lists finalize may build: one bucket per entry of category_stats,
\* sort_by(b.bytes.cmp(a.bytes)) over the map's iteration order
FinalizeBuckets(c, total_bytes) ==
    { s \in BagOrders(SetToBag({ Bucket(c, k, total_bytes) : k \in DOMAIN c.category_stats })) :
        \A i \in 1..Len(s), j \in 1..Len(s) : i < j => s[i].bytes >= s[j].bytes }

\* the top_files lists finalize may build
FinalizeTopFiles(c) ==
    IF c.should_collect_tops
    THEN { [i \in 1..Len(s) |-> [path |-> s[i].path, bytes |-> s[i].size]] :
             s \in IntoSortedVec(c.top_files_heap) }
    ELSE {<<>>}

\* the directories finalize pushes into dir_heap: the ids the pool resolves
ResolvedDirs(c) ==
    { DirWithSize(CHOOSE p \in PoolGet(c.path_pool, id) : TRUE, c.dir_accumulator[id]) :
        id \in { i \in DOMAIN c.dir_accumulator : PoolGet(c.path_pool, i) # None } }

\* the top_dirs lists finalize may build
FinalizeTopDirs(c) ==
    IF c.should_collect_tops
    THEN UNION { { [i \in 1..Len(s) |-> [path |-> s[i].path, bytes |-> s[i].size]] :
                     s \in IntoSortedVec(h) }
                 : h \in HeapPushAll(HeapNew(c.top_n), SetToBag(ResolvedDirs(c))) }
    ELSE {<<>>}

\* SinglePassCollector::finalize: the CollectionResults the call may return
Finalize(c, total_bytes) ==
    { [buckets |-> b, top_files |-> f, top_dirs |-> d] :
        b \in FinalizeBuckets(c, total_bytes),
        f \in FinalizeTopFiles(c),
        d \in FinalizeTopDirs(c) }

NoResults == [buckets |-> <<>>, top_files |-> <<>>, top_dirs |-> <<>>]

(***************************************************************************)
(* A BoundedMinHeap<i32> under any sequence of pushes, then drained        *)
(***************************************************************************)
(***************************************************************************)
(* sharded_collector.rs: ShardedCollector                                  *)
(***************************************************************************)
\* ShardedCollector::new: num_shards collectors from the factory
ShardedNew(num_shards, top_n, should_collect_tops) ==
    [i \in 1..num_shards |-> CollectorNew(top_n, should_collect_tops)]

\* ShardedCollector::merge_collectors
MergeCollectors(collector1, collector2) == collector1

\* the loop of ShardedCollector::finalize: base is the first shard, the remaining
\* shards are merged into it in order
RECURSIVE MergeShards(_, _)
MergeShards(base, rest) ==
    IF rest = <<>> THEN base
    ELSE MergeShards(MergeCollectors(base, Head(rest)), Tail(rest))

(***************************************************************************)
(* duplicates.rs: DuplicateFinder                                          *)
(***************************************************************************)
\* DuplicateFinder::new
FinderNew == [size_groups |-> EmptyMap]

\* an add_file that overwrites the size group instead of pushing to it
AddFileOverwrite(f, path, size) ==
    [f EXCEPT !.size_groups = MapPut(@, size, <<path>>)]

\* DuplicateFinder::add_file: size_groups.entry(size).or_default().push(path)
AddFile(f, path, size) ==
    [f EXCEPT !.size_groups = MapPut(@, size, Append(MapGetOr(@, size, <<>>), path))]

\* the files find_duplicates is run over
DupPaths == { <<"/a", "x.rs">>, <<"/a", "y.txt">>, <<"/b", "x.rs">>, <<"/b", "y.txt">> }

\* A file's content is its first 4096 bytes (prefix), the bytes after them
\* (tail) and its length in bytes (len); two of the contents agree on the
\* prefix and the length and differ in the tail.
Contents ==
    { [prefix |-> "p", tail |-> "t", len |-> 1], [prefix |-> "p", tail |-> "u", len |-> 1],
      [prefix |-> "q", tail |-> "t", len |-> MaxSize] }

\* hash_file_partial(path, 4096) of a readable file: blake3 of what one read of
\* up to 4096 bytes returns, blake3 taken as collision-free
QuickHash(content) == <<"blake3", content.prefix>>

\* a full hash that covers the first 4096 bytes only
FullHashOfPrefix(content) == <<"blake3", content.prefix>>

\* hash_file_full(path) of a readable file: blake3 of the whole content
FullHash(content) == <<"blake3", content.prefix, content.tail>>

\* the elements of a sequence
Range(s) == { s[i] : i \in 1..Len(s) }

\* a group that also takes the paths whose read failed
HashGroupOfAll(s, ok, hashOf, h) == SelectSeq(s, LAMBDA p : hashOf[p] = h)

\* the paths of s, in order, that are in ok and whose hash is h: the Vec that
\* entry(hash).or_default().push(path.clone()) builds for the key h
HashGroup(s, ok, hashOf, h) == SelectSeq(s, LAMBDA p : p \in ok /\ hashOf[p] = h)

\* the values of a HashMap<String, Vec<PathBuf>> built over the paths of s that
\* were read without error
HashGroups(s, ok, hashOf) ==
    { HashGroup(s, ok, hashOf, h) : h \in { hashOf[p] : p \in Range(s) \cap ok } }

\* quick-hash groups go on only from three paths up
CandidatesOfThree(paths, d, quickOk) ==
    { g \in HashGroups(paths, quickOk, [p \in DOMAIN d |-> QuickHash(d[p])]) : Len(g) >= 3 }

\* the quick-hash groups of one size group that go on to the full hash
Candidates(paths, d, quickOk) ==
    { g \in HashGroups(paths, quickOk, [p \in DOMAIN d |-> QuickHash(d[p])]) : Len(g) >= 2 }

\* DuplicateGroups whose wasted_space counts every path of the group
GroupsOfSizeCountAll(size, paths, d, quickOk, fullOk) ==
    IF Len(paths) < 2 THEN {}
    ELSE { [size |-> size,
            hash |-> FullHash(d[dup_paths[1]]),
            paths |-> dup_paths,
            wasted_space |-> size * Len(dup_paths)] :
             dup_paths \in { g \in UNION { HashGroups(candidates, fullOk,
                                                      [p \in DOMAIN d |-> FullHash(d[p])]) :
                                             candidates \in Candidates(paths, d, quickOk) } :
                               Len(g) > 1 } }

\* the DuplicateGroups of one size group
GroupsOfSize(size, paths, d, quickOk, fullOk) ==
    IF Len(paths) < 2 THEN {}
    ELSE { [size |-> size,
            hash |-> FullHash(d[dup_paths[1]]),
            paths |-> dup_paths,
            wasted_space |-> size * (Len(dup_paths) - 1)] :
             dup_paths \in { g \in UNION { HashGroups(candidates, fullOk,
                                                      [p \in DOMAIN d |-> FullHash(d[p])]) :
                                             candidates \in Candidates(paths, d, quickOk) } :
                               Len(g) > 1 } }

\* the paths find_duplicates computes a quick hash for, and a full hash for
QuickHashed(f) ==
    UNION { Range(f.size_groups[sz]) : sz \in { x \in DOMAIN f.size_groups :
                                                 Len(f.size_groups[x]) >= 2 } }

\* a second stage that takes every file whose quick hash was computed
FullHashedAllQuick(f, d, quickOk) == QuickHashed(f) \cap quickOk

FullHashed(f, d, quickOk) ==
    UNION { UNION { Range(g) : g \in Candidates(f.size_groups[sz], d, quickOk) } :
              sz \in { x \in DOMAIN f.size_groups : Len(f.size_groups[x]) >= 2 } }

\* find_duplicates without its final sort: the groups in any order
FindDuplicatesUnsorted(f, d, quickOk, fullOk) ==
    BagOrders(SetToBag(UNION { GroupsOfSize(sz, f.size_groups[sz], d, quickOk, fullOk) :
                                 sz \in DOMAIN f.size_groups }))

\* DuplicateFinder::find_duplicates, when the reads of the paths in quickOk and
\* fullOk succeed: the lists it may return, sorted by wasted_space descending
FindDuplicates(f, d, quickOk, fullOk) ==
    LET groups == UNION { GroupsOfSize(sz, f.size_groups[sz], d, quickOk, fullOk) :
                            sz \in DOMAIN f.size_groups }
    IN  { s \in BagOrders(SetToBag(groups)) :
            \A i \in 1..Len(s), j \in 1..Len(s) :
                i < j => s[i].wasted_space >= s[j].wasted_space }

NoDuplicates ==
    [done |-> FALSE, groups |-> <<>>, quick_tried |-> {}, quick_ok |-> {},
     full_tried |-> {}, full_ok |-> {}]

(***************************************************************************)
(* SinglePassCollector::merge, which the reduce of ParallelScanner::scan   *)
(* calls: category entries are summed by key, the other shard's surviving  *)
(* top files are re-inserted, and its directory totals are added by        *)
(* resolved path (in the order of the other shard's ids)                   *)
(***************************************************************************)
RECURSIVE MergeCategoryStats(_, _, _)
MergeCategoryStats(mine, theirs, keys) ==
    IF keys = {} THEN mine
    ELSE LET k == CHOOSE x \in keys : TRUE
             entry == MapGetOr(mine, k, <<0, 0>>)
         IN  MergeCategoryStats(
                 MapPut(mine, k, <<entry[1] + theirs[k][1], entry[2] + theirs[k][2]>>),
                 theirs, keys \ {k})

RECURSIVE MergeDirs(_, _, _)
\* add other's directory totals, ids from..PoolLen-1, through the resolved paths
MergeDirs(c, other, from) ==
    IF from >= PoolLen(other.path_pool) THEN c
    ELSE IF from \notin DOMAIN other.dir_accumulator THEN MergeDirs(c, other, from + 1)
    ELSE LET path == CHOOSE d \in PoolGet(other.path_pool, from) : TRUE
             r == PoolIntern(c.path_pool, path)
         IN  MergeDirs([c EXCEPT !.path_pool = r.pool,
                                 !.dir_accumulator =
                                     MapPut(@, r.id, MapGetOr(@, r.id, 0)
                                                       + other.dir_accumulator[from])],
                       other, from + 1)

\* the collectors self.merge(other) may leave
CollectorMerge(self, other) ==
    LET c1 == [self EXCEPT !.category_stats =
                   MergeCategoryStats(@, other.category_stats, DOMAIN other.category_stats)]
        c2 == MergeDirs(c1, other, 0)
    IN  { [c2 EXCEPT !.top_files_heap = h] :
            h \in HeapPushAll(self.top_files_heap, other.top_files_heap.heap) }

(***************************************************************************)
(* parallel_scanner.rs: ParallelScanner::scan                              *)
(***************************************************************************)
\* the paths the walker yields an entry for
ScanPaths == {<<"/a", "x.rs">>, <<"/a", "y.py">>, <<"/b", "z.txt">>}

\* an entry is a read error of the walker, or an entry whose metadata cannot be
\* read, or a directory, a regular file (of the least or the greatest size), or
\* something else
EntryKinds ==
    { [kind |-> k, size |-> 0] : k \in {"walk_err", "meta_err", "dir", "other"} }
        \cup { [kind |-> "file", size |-> sz] : sz \in {1, MaxSize} }

\* the exclude patterns a scan may be configured with
ExcludeChoices == { {}, {"/b"} }

\* path_str.contains(pattern), for patterns that are whole path components
PathContains(path, pattern) == \E i \in 1..Len(path) : path[i] = pattern

\* the identity of fold and reduce
ThreadStateNew(top_n, should_collect_tops) ==
    [collector |-> CollectorNew(top_n, should_collect_tops),
     total_bytes |-> 0, file_count |-> 0, dir_count |-> 0]

Warning(path, error) == [path |-> path, error |-> error]

\* a push that replaces the list: what an append without the lock can do, when
\* it writes back a list read before another worker's append
WarningsPushLosing(list, warning) == <<warning>>

\* warnings.lock().push(warning): one append under the mutex
WarningsPush(list, warning) == Append(list, warning)

\* a reduce that keeps the accumulator's counters and forgets the other's
ReduceOpKeepsAcc(acc, other) ==
    { [acc EXCEPT !.collector = c] : c \in CollectorMerge(acc.collector, other.collector) }

\* the reduce closure: merge the collectors, sum the statistics
ReduceOp(acc, other) ==
    { [collector |-> c,
       total_bytes |-> acc.total_bytes + other.total_bytes,
       file_count |-> acc.file_count + other.file_count,
       dir_count |-> acc.dir_count + other.dir_count] :
        c \in CollectorMerge(acc.collector, other.collector) }

\* the components a specification leaves alone
HeapIdle ==
    /\ iheap = HeapNew(0)
    /\ pushed = <<>>
    /\ dropped = EmptyBag
    /\ drained = [done |-> FALSE, vec |-> <<>>]

CollIdle ==
    /\ collector = CollectorNew(0, FALSE)
    /\ fed = <<>>
    /\ finalized = [done |-> FALSE, results |-> NoResults]

ShardIdle ==
    /\ shards = <<>>
    /\ handles = <<>>
    /\ shardFed = <<>>
    /\ sharded = [status |-> "open", results |-> NoResults]

ScanIdle ==
    /\ config = [exclude_patterns |-> {}, top_n |-> 0, should_collect_tops |-> FALSE,
                 find_duplicates |-> FALSE, parallel |-> FALSE]
    /\ walk = EmptyMap
    /\ pending = {}
    /\ states = <<>>
    /\ live = {}
    /\ foldedBy = EmptyMap
    /\ warnings = <<>>
    /\ scan = [done |-> FALSE, stats |-> <<>>, collector |-> CollectorNew(0, FALSE)]

DiskIdle ==
    /\ disk = EmptyMap
    /\ duplicates = NoDuplicates

DupIdle ==
    /\ finder = FinderNew
    /\ DiskIdle

NoLookup == [done |-> FALSE, id |-> 0, len |-> 0, result |-> None]

PoolIdle ==
    /\ pathPool = PoolNew
    /\ interned = <<>>
    /\ lookup = NoLookup

NotCategorized == [status |-> "none", size |-> 0, label |-> ""]

SizeIdle ==
    /\ custom_buckets = None
    /\ sizeCategorizer = [buckets |-> <<>>]
    /\ categorized = NotCategorized

InitHeap ==
    /\ \E k \in 0..MaxCapacity : iheap = HeapNew(k)
    /\ pushed = <<>>
    /\ dropped = EmptyBag
    /\ drained = [done |-> FALSE, vec |-> <<>>]
    /\ CollIdle
    /\ ShardIdle
    /\ ScanIdle
    /\ DupIdle
    /\ PoolIdle
    /\ SizeIdle

IntHeapPush(v) ==
    /\ ~drained.done
    /\ Len(pushed) < MaxPushes
    /\ \E h2 \in HeapPush(iheap, IntItem(v)) :
          /\ iheap' = h2
          /\ dropped' = dropped (+) ((iheap.heap (+) BagOf(IntItem(v))) (-) h2.heap)
    /\ pushed' = Append(pushed, v)
    /\ UNCHANGED drained
    /\ UNCHANGED collVars
    /\ UNCHANGED shardVars
    /\ UNCHANGED scanVars
    /\ UNCHANGED dupVars
    /\ UNCHANGED poolVars
    /\ UNCHANGED sizeVars

IntHeapDrain ==
    /\ ~drained.done
    /\ \E s \in IntoSortedVec(iheap) :
          drained' = [done |-> TRUE, vec |-> [i \in 1..Len(s) |-> s[i].size]]
    /\ UNCHANGED <<iheap, pushed, dropped>>
    /\ UNCHANGED collVars
    /\ UNCHANGED shardVars
    /\ UNCHANGED scanVars
    /\ UNCHANGED dupVars
    /\ UNCHANGED poolVars
    /\ UNCHANGED sizeVars

NextHeap ==
    \/ \E v \in HeapValues : IntHeapPush(v)
    \/ IntHeapDrain

SpecHeap == InitHeap /\ [][NextHeap]_vars

(***************************************************************************)
(* One SinglePassCollector under any sequence of process_file, then        *)
(* finalize(total_bytes) with the total the scanners pass                  *)
(***************************************************************************)
InitCollector ==
    /\ \E n \in 0..MaxTopN, t \in BOOLEAN : collector = CollectorNew(n, t)
    /\ fed = <<>>
    /\ finalized = [done |-> FALSE, results |-> NoResults]
    /\ HeapIdle
    /\ PoolIdle
    /\ SizeIdle
    /\ ShardIdle
    /\ ScanIdle
    /\ DupIdle

CollectorProcessFile(metadata) ==
    /\ ~finalized.done
    /\ Len(fed) < MaxFiles
    /\ collector' \in ProcessFile(collector, metadata)
    /\ fed' = Append(fed, metadata)
    /\ UNCHANGED finalized
    /\ UNCHANGED heapVars
    /\ UNCHANGED poolVars
    /\ UNCHANGED sizeVars
    /\ UNCHANGED shardVars
    /\ UNCHANGED scanVars
    /\ UNCHANGED dupVars

CollectorFinalize ==
    /\ ~finalized.done
    /\ \E r \in Finalize(collector, SumSeq(SizesOf(fed))) :
          finalized' = [done |-> TRUE, results |-> r]
    /\ UNCHANGED <<collector, fed>>
    /\ UNCHANGED heapVars
    /\ UNCHANGED poolVars
    /\ UNCHANGED sizeVars
    /\ UNCHANGED shardVars
    /\ UNCHANGED scanVars
    /\ UNCHANGED dupVars

NextCollector ==
    \/ \E metadata \in AllFileMeta : CollectorProcessFile(metadata)
    \/ CollectorFinalize

SpecCollector == InitCollector /\ [][NextCollector]_vars

(***************************************************************************)
(* One ShardedCollector: callers take a shard with get_shard, lock it and  *)
(* call process_file, drop the handle; finalize(total_bytes) gets the      *)
(* total of the sizes processed                                            *)
(***************************************************************************)
ShardIds == 1..Len(shards)

\* the number of files processed by all shards
TotalFed == SumSeq([i \in 1..Len(shardFed) |-> Len(shardFed[i])])

\* the sum of the sizes processed by all shards
TotalFedBytes == SumSeq([i \in 1..Len(shardFed) |-> SumSeq(SizesOf(shardFed[i]))])

\* the files the shards are given: those of the scanned paths, of the least or
\* the greatest size
ShardFileMeta == { FileMeta(p, sz) : p \in ScanPaths, sz \in {1, MaxSize} }

InitSharded ==
    /\ \E k \in 0..MaxShards, n \in 0..MaxTopN, t \in BOOLEAN :
          /\ (~t => n = MaxTopN)
          /\ shards = ShardedNew(k, n, t)
          /\ handles = [i \in 1..k |-> 0]
          /\ shardFed = [i \in 1..k |-> <<>>]
    /\ sharded = [status |-> "open", results |-> NoResults]
    /\ HeapIdle
    /\ PoolIdle
    /\ SizeIdle
    /\ CollIdle
    /\ ScanIdle
    /\ DupIdle

\* get_shard(shard_id): one more reference to the shard
GetShard(i) ==
    /\ sharded.status = "open"
    /\ SumSeq(handles) < MaxHandles
    /\ handles' = [handles EXCEPT ![i] = @ + 1]
    /\ UNCHANGED <<shards, shardFed, sharded>>
    /\ UNCHANGED heapVars
    /\ UNCHANGED poolVars
    /\ UNCHANGED sizeVars
    /\ UNCHANGED collVars
    /\ UNCHANGED scanVars
    /\ UNCHANGED dupVars

\* handle.lock().process_file(metadata) through a handle from get_shard
ShardProcessFile(i, metadata) ==
    /\ sharded.status = "open"
    /\ handles[i] > 0
    /\ TotalFed < MaxShardFiles
    /\ \E c2 \in ProcessFile(shards[i], metadata) : shards' = [shards EXCEPT ![i] = c2]
    /\ shardFed' = [shardFed EXCEPT ![i] = Append(@, metadata)]
    /\ UNCHANGED <<handles, sharded>>
    /\ UNCHANGED heapVars
    /\ UNCHANGED poolVars
    /\ UNCHANGED sizeVars
    /\ UNCHANGED collVars
    /\ UNCHANGED scanVars
    /\ UNCHANGED dupVars

\* a handle from get_shard goes out of scope
DropShard(i) ==
    /\ handles[i] > 0
    /\ handles' = [handles EXCEPT ![i] = @ - 1]
    /\ UNCHANGED <<shards, shardFed, sharded>>
    /\ UNCHANGED heapVars
    /\ UNCHANGED poolVars
    /\ UNCHANGED sizeVars
    /\ UNCHANGED collVars
    /\ UNCHANGED scanVars
    /\ UNCHANGED dupVars

\* a finalize that takes the collectors out of the shards whoever else holds them
ShardedFinalizeShared ==
    /\ sharded.status = "open"
    /\ IF Len(shards) = 0
       THEN sharded' = [sharded EXCEPT !.status = "panicked"]
       ELSE \E r \in Finalize(MergeShards(Head(shards), Tail(shards)), TotalFedBytes) :
               sharded' = [status |-> "done", results |-> r]
    /\ UNCHANGED <<shards, handles, shardFed>>
    /\ UNCHANGED heapVars
    /\ UNCHANGED poolVars
    /\ UNCHANGED sizeVars
    /\ UNCHANGED collVars
    /\ UNCHANGED scanVars
    /\ UNCHANGED dupVars

\* ShardedCollector::finalize(total_bytes)
ShardedFinalize ==
    /\ sharded.status = "open"
    /\ IF \E i \in ShardIds : handles[i] > 0
       THEN \* Arc::try_unwrap fails: panic!("Failed to unwrap shard ...")
            sharded' = [sharded EXCEPT !.status = "panicked"]
       ELSE IF Len(shards) = 0
       THEN \* shards.remove(0) on an empty Vec panics
            sharded' = [sharded EXCEPT !.status = "panicked"]
       ELSE \E r \in Finalize(MergeShards(Head(shards), Tail(shards)), TotalFedBytes) :
               sharded' = [status |-> "done", results |-> r]
    /\ UNCHANGED <<shards, handles, shardFed>>
    /\ UNCHANGED heapVars
    /\ UNCHANGED poolVars
    /\ UNCHANGED sizeVars
    /\ UNCHANGED collVars
    /\ UNCHANGED scanVars
    /\ UNCHANGED dupVars

NextSharded ==
    \/ \E i \in ShardIds : GetShard(i)
    \/ \E i \in ShardIds, metadata \in ShardFileMeta : ShardProcessFile(i, metadata)
    \/ \E i \in ShardIds : DropShard(i)
    \/ ShardedFinalize

SpecSharded == InitSharded /\ [][NextSharded]_vars

(***************************************************************************)
(* One parallel scan, as main runs it: the workers fold the walker's       *)
(* entries into thread-local states, the states are reduced pairwise, and  *)
(* scan returns the statistics and the merged collector                    *)
(***************************************************************************)
Workers == 1..NumWorkers

InitScan ==
    /\ \E x \in ExcludeChoices, n \in {0, MaxTopN}, t \in BOOLEAN, d \in BOOLEAN :
          /\ (~t => n = MaxTopN)
          /\ config = [exclude_patterns |-> x, top_n |-> n, should_collect_tops |-> t,
                       find_duplicates |-> d, parallel |-> TRUE]
    /\ walk \in [ScanPaths -> EntryKinds]
    /\ pending = ScanPaths
    /\ states = [w \in Workers |-> ThreadStateNew(config.top_n, config.should_collect_tops)]
    /\ live = Workers
    /\ foldedBy = EmptyMap
    /\ warnings = <<>>
    /\ finder = FinderNew
    /\ DiskIdle
    /\ scan = [done |-> FALSE, stats |-> <<>>, collector |-> CollectorNew(0, FALSE)]
    /\ HeapIdle
    /\ PoolIdle
    /\ SizeIdle
    /\ CollIdle
    /\ ShardIdle

\* an iteration that ends at the first entry that fails
YieldsUntilFailure(path) ==
    /\ path \in pending
    /\ walk[path].kind \notin {"walk_err", "meta_err"}

\* the walker's iterator hands out the entry at path: every entry of the walk,
\* once, a failed one like any other
Yields(path) == path \in pending

\* whether the fold closure returns early on the entry at path
Excluded(path) ==
    /\ config.exclude_patterns # {}
    /\ \E pattern \in config.exclude_patterns : PathContains(path, pattern)

\* the fold closure of worker w on the entry at path, with main's callback
FoldEntry(w, path) ==
    /\ config.parallel
    /\ ~scan.done
    /\ Yields(path)
    /\ pending' = pending \ {path}
    /\ foldedBy' = MapPut(foldedBy, path, w)
    /\ LET e == walk[path] IN
       CASE e.kind = "walk_err" ->
              /\ warnings' = WarningsPush(warnings, Warning(path, "walk error"))
              /\ UNCHANGED <<states, finder>>
         [] e.kind # "walk_err" /\ Excluded(path) ->
              UNCHANGED <<states, warnings, finder>>
         [] e.kind = "meta_err" /\ ~Excluded(path) ->
              /\ warnings' = WarningsPush(warnings, Warning(path, "Failed to read metadata"))
              /\ UNCHANGED <<states, finder>>
         [] e.kind = "dir" /\ ~Excluded(path) ->
              /\ states' = [states EXCEPT ![w].dir_count = @ + 1]
              /\ UNCHANGED <<warnings, finder>>
         [] e.kind = "file" /\ ~Excluded(path) ->
              /\ \E c \in ProcessFile(states[w].collector, FileMeta(path, e.size)) :
                    states' = [states EXCEPT ![w].total_bytes = @ + e.size,
                                             ![w].file_count = @ + 1,
                                             ![w].collector = c]
              /\ finder' = IF config.find_duplicates
                           THEN AddFile(finder, path, e.size)
                           ELSE finder
              /\ UNCHANGED warnings
         [] e.kind = "other" /\ ~Excluded(path) ->
              UNCHANGED <<states, warnings, finder>>
    /\ UNCHANGED <<config, walk, live, scan, disk, duplicates>>
    /\ UNCHANGED heapVars
    /\ UNCHANGED poolVars
    /\ UNCHANGED sizeVars
    /\ UNCHANGED collVars
    /\ UNCHANGED shardVars

\* the reduce closure on two states: acc absorbs other, which is moved away
ReduceStates(acc, other) ==
    /\ config.parallel
    /\ ~scan.done
    /\ pending = {}
    /\ acc \in live /\ other \in live /\ acc # other
    /\ \E st \in ReduceOp(states[acc], states[other]) :
          states' = [states EXCEPT ![acc] = st,
                                   ![other] = ThreadStateNew(config.top_n,
                                                             config.should_collect_tops)]
    /\ live' = live \ {other}
    /\ UNCHANGED <<config, walk, pending, foldedBy, warnings, finder, scan, disk, duplicates>>
    /\ UNCHANGED heapVars
    /\ UNCHANGED poolVars
    /\ UNCHANGED sizeVars
    /\ UNCHANGED collVars
    /\ UNCHANGED shardVars

\* scan returns (stats, final_state.collector)
ScanReturn ==
    /\ config.parallel
    /\ ~scan.done
    /\ pending = {}
    /\ \E w \in live :
          /\ live = {w}
          /\ scan' = [done |-> TRUE,
                      stats |-> [total_bytes |-> states[w].total_bytes,
                                 file_count |-> states[w].file_count,
                                 dir_count |-> states[w].dir_count,
                                 warnings |-> warnings],
                      collector |-> states[w].collector]
    /\ UNCHANGED <<config, walk, pending, states, live, foldedBy, warnings, finder,
                   disk, duplicates>>
    /\ UNCHANGED heapVars
    /\ UNCHANGED poolVars
    /\ UNCHANGED sizeVars
    /\ UNCHANGED collVars
    /\ UNCHANGED shardVars

NextScan ==
    \/ \E w \in Workers, path \in ScanPaths : FoldEntry(w, path)
    \/ \E acc \in Workers, other \in Workers : ReduceStates(acc, other)
    \/ ScanReturn

SpecScan == InitScan /\ [][NextScan]_vars

(***************************************************************************)
(* One sequential scan, as main runs it: Scanner::scan walks the entries   *)
(* in the walker's order and main's callback feeds the one collector and   *)
(* the DuplicateFinder.  states[1] holds scan's stats and main's collector *)
(***************************************************************************)
InitSeqScan ==
    /\ \E x \in ExcludeChoices, n \in {0, MaxTopN}, t \in BOOLEAN, d \in BOOLEAN :
          /\ (~t => n = MaxTopN)
          /\ config = [exclude_patterns |-> x, top_n |-> n, should_collect_tops |-> t,
                       find_duplicates |-> d, parallel |-> FALSE]
    /\ walk \in [ScanPaths -> EntryKinds]
    /\ pending = ScanPaths
    /\ states = <<ThreadStateNew(config.top_n, config.should_collect_tops)>>
    /\ live = {1}
    /\ foldedBy = EmptyMap
    /\ warnings = <<>>
    /\ finder = FinderNew
    /\ DiskIdle
    /\ scan = [done |-> FALSE, stats |-> <<>>, collector |-> CollectorNew(0, FALSE)]
    /\ HeapIdle
    /\ PoolIdle
    /\ SizeIdle
    /\ CollIdle
    /\ ShardIdle

\* one iteration of the loop of Scanner::scan, on the entry at path:
\* filter_entry, process_entry and main's callback
SeqEntry(path) ==
    /\ ~config.parallel
    /\ ~scan.done
    /\ Yields(path)
    /\ pending' = pending \ {path}
    /\ foldedBy' = MapPut(foldedBy, path, 1)
    /\ LET e == walk[path] IN
       CASE e.kind = "walk_err" ->
              /\ warnings' = Append(warnings, Warning(path, "walk error"))
              /\ UNCHANGED <<states, finder>>
         [] e.kind # "walk_err" /\ Excluded(path) ->
              UNCHANGED <<states, warnings, finder>>
         [] e.kind = "meta_err" /\ ~Excluded(path) ->
              /\ warnings' = Append(warnings, Warning(path, "io error"))
              /\ UNCHANGED <<states, finder>>
         [] e.kind = "dir" /\ ~Excluded(path) ->
              /\ states' = [states EXCEPT ![1].dir_count = @ + 1]
              /\ UNCHANGED <<warnings, finder>>
         [] e.kind = "file" /\ ~Excluded(path) ->
              /\ \E c \in ProcessFile(states[1].collector, FileMeta(path, e.size)) :
                    states' = [states EXCEPT ![1].total_bytes = @ + e.size,
                                             ![1].file_count = @ + 1,
                                             ![1].collector = c]
              /\ finder' = IF config.find_duplicates
                           THEN AddFile(finder, path, e.size)
                           ELSE finder
              /\ UNCHANGED warnings
         [] e.kind = "other" /\ ~Excluded(path) ->
              UNCHANGED <<states, warnings, finder>>
    /\ UNCHANGED <<config, walk, live, scan, disk, duplicates>>
    /\ UNCHANGED heapVars
    /\ UNCHANGED poolVars
    /\ UNCHANGED sizeVars
    /\ UNCHANGED collVars
    /\ UNCHANGED shardVars

\* the walker is exhausted: scan returns stats, and main keeps its collector
SeqReturn ==
    /\ ~config.parallel
    /\ ~scan.done
    /\ pending = {}
    /\ scan' = [done |-> TRUE,
                stats |-> [total_bytes |-> states[1].total_bytes,
                           file_count |-> states[1].file_count,
                           dir_count |-> states[1].dir_count,
                           warnings |-> warnings],
                collector |-> states[1].collector]
    /\ UNCHANGED <<config, walk, pending, states, live, foldedBy, warnings, finder,
                   disk, duplicates>>
    /\ UNCHANGED heapVars
    /\ UNCHANGED poolVars
    /\ UNCHANGED sizeVars
    /\ UNCHANGED collVars
    /\ UNCHANGED shardVars

NextSeqScan ==
    \/ \E path \in ScanPaths : SeqEntry(path)
    \/ SeqReturn

(***************************************************************************)
(* A scan of either kind, with the scheduling the code has: the loop of    *)
(* Scanner::scan goes on to its next entry, the workers of the pool keep   *)
(* taking entries and reducing states, and no step waits on another (each  *)
(* mutex is held for one push and no lock is taken inside another)         *)
(***************************************************************************)
\* termination is followed with collect-tops off: the collector's lists play no
\* part in which step comes next
InitAnyScan ==
    /\ InitScan \/ InitSeqScan
    /\ ~config.should_collect_tops

NextAnyScan == NextScan \/ NextSeqScan

SpecScanFair == InitAnyScan /\ [][NextAnyScan]_vars /\ WF_vars(NextAnyScan)

(***************************************************************************)
(* One DuplicateFinder: each file is ingested once, with the size the      *)
(* caller gives, then find_duplicates reads the files; any read may fail   *)
(***************************************************************************)
InitDup ==
    /\ finder = FinderNew
    /\ disk \in [DupPaths -> Contents]
    /\ duplicates = NoDuplicates
    /\ HeapIdle
    /\ PoolIdle
    /\ SizeIdle
    /\ CollIdle
    /\ ShardIdle
    /\ ScanIdle

\* the paths ingested so far
Ingested == UNION { Range(finder.size_groups[sz]) : sz \in DOMAIN finder.size_groups }

\* finder.add_file(path, size)
DupAddFile(path, size) ==
    /\ ~duplicates.done
    /\ path \notin Ingested
    /\ finder' = AddFile(finder, path, size)
    /\ UNCHANGED <<disk, duplicates>>
    /\ UNCHANGED heapVars
    /\ UNCHANGED poolVars
    /\ UNCHANGED sizeVars
    /\ UNCHANGED collVars
    /\ UNCHANGED shardVars
    /\ UNCHANGED scanVars

\* finder.find_duplicates(): the reads of quickOk succeed in hash_file_partial,
\* those of fullOk in hash_file_full
DupFindDuplicates ==
    /\ ~duplicates.done
    /\ \E quickOk \in SUBSET QuickHashed(finder) :
          \E fullOk \in SUBSET FullHashed(finder, disk, quickOk) :
             \E groups \in FindDuplicates(finder, disk, quickOk, fullOk) :
                duplicates' = [done |-> TRUE, groups |-> groups,
                               quick_tried |-> QuickHashed(finder),
                               quick_ok |-> quickOk,
                               full_tried |-> FullHashed(finder, disk, quickOk),
                               full_ok |-> fullOk]
    /\ UNCHANGED <<finder, disk>>
    /\ UNCHANGED heapVars
    /\ UNCHANGED poolVars
    /\ UNCHANGED sizeVars
    /\ UNCHANGED collVars
    /\ UNCHANGED shardVars
    /\ UNCHANGED scanVars

NextDup ==
    \/ \E path \in DupPaths, size \in Sizes : DupAddFile(path, size)
    \/ DupFindDuplicates

SpecDup == InitDup /\ [][NextDup]_vars

(***************************************************************************)
(* One PathPool under any sequence of intern and get calls                 *)
(***************************************************************************)
InitPool ==
    /\ pathPool = PoolNew
    /\ interned = <<>>
    /\ lookup = NoLookup
    /\ SizeIdle
    /\ HeapIdle
    /\ CollIdle
    /\ ShardIdle
    /\ ScanIdle
    /\ DupIdle

\* pool.intern(path)
PathIntern(path) ==
    /\ Len(interned) < MaxInterns
    /\ LET r == PoolIntern(pathPool, path)
       IN  /\ pathPool' = r.pool
           /\ interned' = Append(interned, [path |-> path, id |-> r.id,
                                            changed |-> r.pool # pathPool])
    /\ UNCHANGED lookup
    /\ UNCHANGED sizeVars
    /\ UNCHANGED collVars
    /\ UNCHANGED shardVars
    /\ UNCHANGED scanVars
    /\ UNCHANGED dupVars
    /\ UNCHANGED <<iheap, pushed, dropped, drained>>

\* pool.get(id)
PathGet(id) ==
    /\ lookup' = [done |-> TRUE, id |-> id, len |-> PoolLen(pathPool),
                  result |-> PoolGet(pathPool, id)]
    /\ UNCHANGED <<pathPool, interned>>
    /\ UNCHANGED sizeVars
    /\ UNCHANGED collVars
    /\ UNCHANGED shardVars
    /\ UNCHANGED scanVars
    /\ UNCHANGED dupVars
    /\ UNCHANGED <<iheap, pushed, dropped, drained>>

NextPool ==
    \/ \E path \in PoolPaths : PathIntern(path)
    \/ \E id \in 0..MaxInterns : PathGet(id)

SpecPool == InitPool /\ [][NextPool]_vars

(***************************************************************************)
(* One SizeCategorizer, with the default or a custom boundary list, and    *)
(* calls of categorize                                                     *)
(***************************************************************************)
InitSize ==
    /\ custom_buckets \in {None} \cup { Some(l) : l \in BoundLists(MaxBounds) }
    /\ sizeCategorizer = SizeCategorizerNew(custom_buckets)
    /\ categorized = NotCategorized
    /\ PoolIdle
    /\ HeapIdle
    /\ CollIdle
    /\ ShardIdle
    /\ ScanIdle
    /\ DupIdle

\* categorizer.categorize(metadata), metadata.size = size
SizeCategorize(size) ==
    /\ categorized.status # "panicked"
    /\ LET r == FindBucket(sizeCategorizer, size)
       IN  categorized' = [status |-> r.status, size |-> size, label |-> r.label]
    /\ UNCHANGED <<custom_buckets, sizeCategorizer>>
    /\ UNCHANGED poolVars
    /\ UNCHANGED collVars
    /\ UNCHANGED shardVars
    /\ UNCHANGED scanVars
    /\ UNCHANGED dupVars
    /\ UNCHANGED <<iheap, pushed, dropped, drained>>

NextSize == \E size \in SizeInputs : SizeCategorize(size)

SpecSize == InitSize /\ [][NextSize]_vars

(***************************************************************************)
(* Properties of the heap                                                  *)
(***************************************************************************)
\* s without its element at index i
RemoveAt(s, i) == [k \in 1..(Len(s) - 1) |-> IF k < i THEN s[k] ELSE s[k + 1]]

\* the integers of s in non-increasing order, by selection of the maximum
RECURSIVE SortDesc(_)
SortDesc(s) ==
    IF s = <<>> THEN <<>>
    ELSE LET i == CHOOSE k \in 1..Len(s) : \A l \in 1..Len(s) : s[k] >= s[l]
         IN  <<s[i]>> \o SortDesc(RemoveAt(s, i))

\* the first n elements of s (all of s when it is shorter)
Take(s, n) == SubSeq(s, 1, Min2(n, Len(s)))

\* C6: after any M pushes into a heap of capacity K >= 0 the heap holds exactly
\* min(K, M) items, and every retained item is >= every discarded or evicted one.
C6_SizeAndRetained ==
    /\ HeapLen(iheap) = Min2(iheap.capacity, Len(pushed))
    /\ iheap.heap (+) dropped = SeqToBag([i \in 1..Len(pushed) |-> IntItem(pushed[i])])
    /\ \A r \in BagToSet(iheap.heap), d \in BagToSet(dropped) : r.size >= d.size

\* a full heap of capacity 2 that admitted 1 and later evicted it for 8
C6_Witness ==
    /\ iheap.capacity = 2
    /\ pushed = <<5, 1, 8>>
    /\ dropped = BagOf(IntItem(1))

\* C7: into_sorted_vec returns the retained items in non-increasing order, and
\* they are the first min(K, M) elements of the descending sort of all pushes.
C7_DrainIsTopOfSort ==
    drained.done =>
        /\ \A i \in 1..Len(drained.vec), j \in 1..Len(drained.vec) :
              i < j => drained.vec[i] >= drained.vec[j]
        /\ drained.vec = Take(SortDesc(pushed), iheap.capacity)

\* capacity 3, pushes 5, 2, 8, 10, 1: drained as 10, 8, 5
C7_Witness ==
    /\ iheap.capacity = 3
    /\ pushed = <<5, 2, 8, 10, 1>>
    /\ drained.done
    /\ drained.vec = <<10, 8, 5>>

(***************************************************************************)
(* Properties of one collector                                             *)
(***************************************************************************)
\* the sum of the bytes (n = 1) or file counts (n = 2) of a category_stats map
StatsTotal(stats, n) == SumOver([k \in DOMAIN stats |-> stats[k][n]], DOMAIN stats)

\* C8: after any sequence of process_file calls, collect-tops on or off, the
\* collector has one category entry per distinct key the categorizer returned,
\* the entries' bytes sum to the sizes processed and their counts to the calls.
C8_CategoryTotals ==
    /\ DOMAIN collector.category_stats = { Categorize(fed[i]) : i \in 1..Len(fed) }
    /\ StatsTotal(collector.category_stats, 1) = SumSeq(SizesOf(fed))
    /\ StatsTotal(collector.category_stats, 2) = Len(fed)

\* three files in two categories, two of them of different extensions of one key
C8_Witness ==
    /\ Len(fed) = 3
    /\ ~collector.should_collect_tops
    /\ DOMAIN collector.category_stats = {"Code", "Documents"}
    /\ collector.category_stats["Code"] = <<3, 2>>
    /\ {fed[i].extension : i \in 1..Len(fed)} = {Some("rs"), Some("py"), Some("txt")}

\* C18: with collect-tops disabled, for any non-empty sequence of processed
\* records and any top_n, finalize returns a non-empty bucket list and empty
\* top_files and top_dirs lists.
C18_NoTopsWhenDisabled ==
    (finalized.done /\ ~collector.should_collect_tops /\ fed # <<>>) =>
        /\ finalized.results.buckets # <<>>
        /\ finalized.results.top_files = <<>>
        /\ finalized.results.top_dirs = <<>>

\* collect-tops off, top_n = MaxTopN, three records in two directories
C18_Witness ==
    /\ finalized.done
    /\ ~collector.should_collect_tops
    /\ collector.top_n = MaxTopN
    /\ Len(fed) = 3
    /\ Cardinality({ ParentOf(fed[i].path) : i \in 1..Len(fed) }) = 2
    /\ Len(finalized.results.buckets) = 2

\* the (path, bytes) pairs of a list of entries, and of the processed records
EntryBag(entries) ==
    SeqToBag([i \in 1..Len(entries) |-> <<entries[i].path, entries[i].bytes>>])

FedBag == SeqToBag([i \in 1..Len(fed) |-> <<fed[i].path, fed[i].size>>])

EntryBytes(entries) == [i \in 1..Len(entries) |-> entries[i].bytes]

\* C19: with collect-tops enabled and capacity N, top_files has at most N
\* entries, is in non-increasing order of bytes, each entry is the (path, size)
\* of a processed record, and its sizes are the N largest sizes processed (all
\* of them when fewer than N records were processed).
C19_TopFiles ==
    (finalized.done /\ collector.should_collect_tops) =>
        LET top == finalized.results.top_files
        IN  /\ Len(top) <= collector.top_n
            /\ \A i \in 1..Len(top), j \in 1..Len(top) : i < j => top[i].bytes >= top[j].bytes
            /\ EntryBag(top) \sqsubseteq FedBag
            /\ EntryBytes(top) = Take(SortDesc(SizesOf(fed)), collector.top_n)

\* three records of sizes 1, MaxSize, 1 in that order and capacity 2: the heap
\* evicted a record and top_files holds MaxSize, then 1
C19_Witness ==
    /\ finalized.done
    /\ collector.should_collect_tops
    /\ collector.top_n = 2
    /\ SizesOf(fed) = <<1, MaxSize, 1>>
    /\ EntryBytes(finalized.results.top_files) = <<MaxSize, 1>>

\* the sum of the sizes of the processed records whose parent is directory d
ParentSum(d) ==
    SumSeq([i \in 1..Len(fed) |-> IF ParentOf(fed[i].path) = Some(d) THEN fed[i].size ELSE 0])

\* the directories that are the parent of a processed record
ParentDirs == { d \in Dirs : \E i \in 1..Len(fed) : ParentOf(fed[i].path) = Some(d) }

\* the sums of the directories of set ds, in some order
RECURSIVE SumsOf(_)
SumsOf(ds) ==
    IF ds = {} THEN <<>>
    ELSE LET d == CHOOSE x \in ds : TRUE IN <<ParentSum(d)>> \o SumsOf(ds \ {d})

\* C20: with collect-tops enabled, each top_dirs entry's bytes is the sum of
\* the sizes of the processed files whose immediate parent is that directory
\* (files of its subdirectories contribute nothing), and top_dirs is the N
\* directories of the largest such sums, in non-increasing order of bytes.
C20_TopDirs ==
    (finalized.done /\ collector.should_collect_tops) =>
        LET top == finalized.results.top_dirs
        IN  /\ \A i \in 1..Len(top) :
                  /\ top[i].path \in ParentDirs
                  /\ top[i].bytes = ParentSum(top[i].path)
            /\ \A i \in 1..Len(top), j \in 1..Len(top) : i # j => top[i].path # top[j].path
            /\ \A i \in 1..Len(top), j \in 1..Len(top) : i < j => top[i].bytes >= top[j].bytes
            /\ EntryBytes(top) = Take(SortDesc(SumsOf(ParentDirs)), collector.top_n)

\* one record in each of /a, /a/s and /b with capacity 2: /a, whose own file
\* is smaller than the file of its subdirectory /a/s, is the directory left out
C20_Witness ==
    /\ finalized.done
    /\ collector.should_collect_tops
    /\ collector.top_n = 2
    /\ ParentDirs = Dirs
    /\ ParentSum("/a") = 1
    /\ ParentSum("/a/s") = MaxSize
    /\ ParentSum("/b") = MaxSize
    /\ { finalized.results.top_dirs[i] : i \in 1..Len(finalized.results.top_dirs) }
         = { [path |-> "/a/s", bytes |-> MaxSize], [path |-> "/b", bytes |-> MaxSize] }

\* the processed records of category key
FedOfKey(key) == SelectSeq(fed, LAMBDA m : Categorize(m) = key)

\* C21: the bucket list finalize returns is in non-increasing order of bytes
\* and holds exactly one bucket for each distinct category key seen, with the
\* bytes and file_count accumulated for that key.
C21_BucketsSortedOnePerKey ==
    finalized.done =>
        LET b == finalized.results.buckets
        IN  /\ \A i \in 1..Len(b), j \in 1..Len(b) : i < j => b[i].bytes >= b[j].bytes
            /\ { b[i].key : i \in 1..Len(b) } = { Categorize(fed[i]) : i \in 1..Len(fed) }
            /\ \A i \in 1..Len(b), j \in 1..Len(b) : i # j => b[i].key # b[j].key
            /\ \A i \in 1..Len(b) :
                  /\ b[i].bytes = SumSeq(SizesOf(FedOfKey(b[i].key)))
                  /\ b[i].file_count = Len(FedOfKey(b[i].key))

\* the smaller category was seen first and twice: its bucket comes second
C21_Witness ==
    /\ finalized.done
    /\ Len(fed) = 3
    /\ Categorize(fed[1]) = "Documents" /\ Categorize(fed[2]) = "Code"
    /\ Len(finalized.results.buckets) = 2
    /\ finalized.results.buckets[1].key = "Code"
    /\ finalized.results.buckets[1].bytes = MaxSize + 1
    /\ finalized.results.buckets[1].file_count = 2
    /\ finalized.results.buckets[2].bytes = 1

(***************************************************************************)
(* Properties of the shard reduction                                       *)
(***************************************************************************)
\* the collectors that processing metas in order, starting from one of cs, may leave
RECURSIVE FeedAll(_, _)
FeedAll(cs, metas) ==
    IF metas = <<>> THEN cs
    ELSE FeedAll(UNION { ProcessFile(c, Head(metas)) : c \in cs }, Tail(metas))

\* the (key, bytes, file_count) of each bucket of a bucket list
BucketSet(buckets) ==
    { [key |-> buckets[i].key, bytes |-> buckets[i].bytes,
       file_count |-> buckets[i].file_count] : i \in 1..Len(buckets) }

\* the bucket sets that finalizing collector c may give
FinalBucketSets(c) == { BucketSet(r.buckets) : r \in Finalize(c, TotalFedBytes) }

\* the sizes of every file processed by any shard, shard after shard
RECURSIVE AllFedSizes(_)
AllFedSizes(feds) ==
    IF feds = <<>> THEN <<>> ELSE SizesOf(Head(feds)) \o AllFedSizes(Tail(feds))

\* the bytes collector c holds for directory path d
DirTotal(c, d) ==
    LET ids == { id \in DOMAIN c.dir_accumulator : PoolGet(c.path_pool, id) = Some(d) }
    IN  SumOver(c.dir_accumulator, ids)

\* C1: for every partition of the records over the shards, after the shards
\* are reduced and finalized, the buckets' bytes sum to the sizes of all
\* processed records and their file counts to the number of records.
C1_BucketsSumToProcessed ==
    sharded.status = "done" =>
        /\ SumSeq([i \in 1..Len(sharded.results.buckets) |->
                      sharded.results.buckets[i].bytes]) = TotalFedBytes
        /\ SumSeq([i \in 1..Len(sharded.results.buckets) |->
                      sharded.results.buckets[i].file_count]) = TotalFed

\* C2: merging the shard fed A with the shard fed B and finalizing gives the
\* same buckets (keys, bytes, file counts) as one collector fed A then B.
C2_MergeEqualsConcatenation ==
    \A i \in ShardIds, j \in ShardIds :
        i # j =>
            \A c \in FeedAll({CollectorNew(shards[i].top_n, shards[i].should_collect_tops)},
                             shardFed[i] \o shardFed[j]) :
                FinalBucketSets(MergeCollectors(shards[i], shards[j])) = FinalBucketSets(c)

\* C3: with collect-tops on and capacity N, the sizes of the final top_files are
\* the N largest sizes of all processed records, as a full descending sort gives.
C3_TopFilesAreGlobalTop ==
    (sharded.status = "done" /\ shards[1].should_collect_tops) =>
        [i \in 1..Len(sharded.results.top_files) |-> sharded.results.top_files[i].bytes]
            = Take(SortDesc(AllFedSizes(shardFed)), shards[1].top_n)

\* C4: the reduction is commutative and associative for bucket bytes and counts:
\* merge(a, b) and merge(b, a), and merge(merge(a, b), c) and
\* merge(a, merge(b, c)), finalize to the same per-key bytes and counts.
C4_MergeCommutesAndAssociates ==
    \A a \in ShardIds, b \in ShardIds, c \in ShardIds :
        /\ FinalBucketSets(MergeCollectors(shards[a], shards[b]))
             = FinalBucketSets(MergeCollectors(shards[b], shards[a]))
        /\ FinalBucketSets(MergeCollectors(MergeCollectors(shards[a], shards[b]), shards[c]))
             = FinalBucketSets(MergeCollectors(shards[a], MergeCollectors(shards[b], shards[c])))

\* C5: merging two shards combines directory totals by resolved path: for every
\* directory d the merged total is shard1's total for d plus shard2's.
C5_DirTotalsAddByPath ==
    \A i \in ShardIds, j \in ShardIds :
        i # j =>
            \A d \in Dirs :
                DirTotal(MergeCollectors(shards[i], shards[j]), d)
                    = DirTotal(shards[i], d) + DirTotal(shards[j], d)

(***************************************************************************)
(* Properties of the parallel scan                                         *)
(***************************************************************************)
\* the paths whose entry was read successfully, is of the kind, and is not excluded
CountedPaths(kind) == { p \in ScanPaths : walk[p].kind = kind /\ ~Excluded(p) }

\* C9: at the end of a parallel scan total_bytes, file_count and dir_count are
\* the sum of the sizes of the file entries, the number of file entries and
\* the number of directory entries that were read and not excluded, however
\* the entries were distributed over the workers and the states were reduced.
C9_ScanTotals ==
    scan.done =>
        /\ scan.stats.total_bytes
             = SumOver([p \in ScanPaths |-> walk[p].size], CountedPaths("file"))
        /\ scan.stats.file_count = Cardinality(CountedPaths("file"))
        /\ scan.stats.dir_count = Cardinality(CountedPaths("dir"))

\* two files taken by different workers and a directory, reduced and returned
C9_Witness ==
    /\ scan.done
    /\ scan.stats.total_bytes = 3
    /\ scan.stats.file_count = 2
    /\ scan.stats.dir_count = 1
    /\ \E p \in CountedPaths("file"), q \in CountedPaths("file"), r \in CountedPaths("dir") :
          /\ foldedBy[p] # foldedBy[q]
          /\ foldedBy[r] # foldedBy[p]

\* the entries whose traversal failed, or whose metadata read failed
FailedPaths ==
    { p \in ScanPaths : \/ walk[p].kind = "walk_err"
                        \/ walk[p].kind = "meta_err" /\ ~Excluded(p) }

\* the number of warnings of list ws that name path p
WarningCount(ws, p) == Cardinality({ i \in 1..Len(ws) : ws[i].path = p })

\* the entries worker w has taken that are files, read and not excluded
FilesFoldedBy(w) == { p \in CountedPaths("file") \ pending : foldedBy[p] = w }

\* C15: in a parallel scan, under every interleaving, each entry whose
\* traversal or metadata read fails adds exactly one warning to the shared list
\* and no other entry adds one; no warning is lost or duplicated, and the other
\* entries are still counted and aggregated.
C15_OneWarningPerFailure ==
    /\ \A p \in ScanPaths :
          WarningCount(warnings, p) = IF p \in FailedPaths \ pending THEN 1 ELSE 0
    /\ Len(warnings) = Cardinality(FailedPaths \ pending)
    /\ live = Workers =>
          /\ SumOver([w \in Workers |-> states[w].file_count], Workers)
                = Cardinality(CountedPaths("file") \ pending)
          /\ SumOver([w \in Workers |-> states[w].dir_count], Workers)
                = Cardinality(CountedPaths("dir") \ pending)
          /\ SumOver([w \in Workers |-> StatsTotal(states[w].collector.category_stats, 2)],
                     Workers)
                = Cardinality(CountedPaths("file") \ pending)
    /\ scan.done =>
          /\ scan.stats.warnings = warnings
          /\ \A p \in ScanPaths :
                WarningCount(scan.stats.warnings, p) = IF p \in FailedPaths THEN 1 ELSE 0
          /\ scan.stats.file_count = Cardinality(CountedPaths("file"))
          /\ scan.stats.dir_count = Cardinality(CountedPaths("dir"))

\* a traversal error and a metadata error taken by different workers, and a
\* file that is counted
C15_Witness ==
    /\ scan.done
    /\ Len(scan.stats.warnings) = 2
    /\ scan.stats.file_count = 1
    /\ \E p \in ScanPaths, q \in ScanPaths :
          /\ walk[p].kind = "walk_err"
          /\ walk[q].kind = "meta_err"
          /\ foldedBy[p] # foldedBy[q]

\* C16: for every finite stream of entries, any subset of which fail, a scan
\* (sequential or parallel) eventually terminates and returns its totals and a
\* collector.
C16_ScanTerminates == <>(scan.done /\ pending = {})

\* a sequential scan all of whose entries failed has returned
C16_Witness ==
    /\ scan.done
    /\ ~config.parallel
    /\ FailedPaths = ScanPaths
    /\ Len(scan.stats.warnings) = Cardinality(ScanPaths)

\* the number of times path p is held by the DuplicateFinder
FinderCount(p) ==
    SumOver([sz \in DOMAIN finder.size_groups |->
                Cardinality({ i \in 1..Len(finder.size_groups[sz]) :
                                finder.size_groups[sz][i] = p })],
            DOMAIN finder.size_groups)

\* the number of paths held by the DuplicateFinder
FinderLen ==
    SumOver([sz \in DOMAIN finder.size_groups |-> Len(finder.size_groups[sz])],
            DOMAIN finder.size_groups)

\* C17: in a parallel scan every file entry that is read and not excluded is
\* processed once, by the collector of the one worker that took it, and, when
\* duplicate detection is requested, is added to the shared DuplicateFinder
\* once; after the scan the finder holds file_count paths.
C17_EachFileOnce ==
    /\ live = Workers =>
          \A w \in Workers :
              /\ states[w].file_count = Cardinality(FilesFoldedBy(w))
              /\ StatsTotal(states[w].collector.category_stats, 2)
                    = Cardinality(FilesFoldedBy(w))
              /\ StatsTotal(states[w].collector.category_stats, 1)
                    = SumOver([p \in ScanPaths |-> walk[p].size], FilesFoldedBy(w))
    /\ \A p \in ScanPaths :
          FinderCount(p) = IF /\ config.find_duplicates
                              /\ p \in CountedPaths("file") \ pending
                           THEN 1 ELSE 0
    /\ (scan.done /\ config.find_duplicates) => FinderLen = scan.stats.file_count

\* duplicate detection on: two files of one size taken by different workers,
\* both held by the finder
C17_Witness ==
    /\ scan.done
    /\ config.find_duplicates
    /\ scan.stats.file_count = 2
    /\ FinderLen = 2
    /\ \E p \in CountedPaths("file"), q \in CountedPaths("file") :
          /\ foldedBy[p] # foldedBy[q]
          /\ walk[p].size = walk[q].size

(***************************************************************************)
(* Properties of duplicate detection                                       *)
(***************************************************************************)
\* the size path was ingested with
IngestedSize(path) == CHOOSE sz \in DOMAIN finder.size_groups : path \in Range(finder.size_groups[sz])

\* C10: two files of equal size but different content never appear in the same
\* DuplicateGroup returned by find_duplicates (hashes taken as collision-free).
C10_GroupsShareContent ==
    duplicates.done =>
        \A i \in 1..Len(duplicates.groups) :
            \A p \in Range(duplicates.groups[i].paths), q \in Range(duplicates.groups[i].paths) :
                ~(IngestedSize(p) = IngestedSize(q) /\ disk[p] # disk[q])

\* three files of one size, all read: two are identical and are grouped, the
\* third has the same first 4096 bytes, another tail, and is left out
C10_Witness ==
    /\ duplicates.done
    /\ Len(duplicates.groups) = 1
    /\ \E p \in Ingested, q \in Ingested, r \in Ingested :
          /\ Range(duplicates.groups[1].paths) = {p, q}
          /\ p # q /\ r \notin {p, q}
          /\ disk[p] = disk[q]
          /\ disk[r] # disk[p] /\ disk[r].prefix = disk[p].prefix
          /\ IngestedSize(r) = IngestedSize(p)
          /\ r \in duplicates.full_ok

\* every read of find_duplicates succeeded
AllReadable ==
    /\ duplicates.quick_ok = QuickHashed(finder)
    /\ duplicates.full_ok = FullHashed(finder, disk, duplicates.quick_ok)

\* every ingested file was ingested with the length of its content
TrueSizes == \A p \in Ingested : IngestedSize(p) = disk[p].len

\* the maximal sets of two or more ingested files of one content
IdenticalSets ==
    { S \in { { p \in Ingested : disk[p] = c } : c \in Contents } : Cardinality(S) >= 2 }

\* the sets of paths of the returned groups
GroupSets == { Range(duplicates.groups[i].paths) : i \in 1..Len(duplicates.groups) }

\* C11: when every ingested file is readable and was ingested with its true
\* size, find_duplicates returns exactly one group per maximal set of two or
\* more files of identical content, and the group lists all files of the set.
C11_OneGroupPerIdenticalSet ==
    (duplicates.done /\ AllReadable /\ TrueSizes) =>
        /\ GroupSets = IdenticalSets
        /\ Len(duplicates.groups) = Cardinality(IdenticalSets)
        /\ \A i \in 1..Len(duplicates.groups) :
              Len(duplicates.groups[i].paths) = Cardinality(Range(duplicates.groups[i].paths))

\* four readable files of true sizes MaxSize, MaxSize, 1, 1, pairwise identical:
\* two groups of two paths
C11_Witness ==
    /\ duplicates.done /\ AllReadable /\ TrueSizes
    /\ Ingested = DupPaths
    /\ Len(duplicates.groups) = 2
    /\ Cardinality(IdenticalSets) = 2
    /\ { duplicates.groups[i].size : i \in 1..2 } = {1, MaxSize}

\* C12: every returned DuplicateGroup has at least 2 paths and wasted_space =
\* size * (number of paths - 1), size being the size its files were ingested
\* with.
C12_WastedSpace ==
    duplicates.done =>
        \A i \in 1..Len(duplicates.groups) :
            LET g == duplicates.groups[i]
            IN  /\ Len(g.paths) >= 2
                /\ \A p \in Range(g.paths) : IngestedSize(p) = g.size
                /\ g.wasted_space = g.size * (Len(g.paths) - 1)

\* a group of three paths ingested with size MaxSize, which is not their length
C12_Witness ==
    /\ duplicates.done
    /\ \E i \in 1..Len(duplicates.groups) :
          /\ Len(duplicates.groups[i].paths) = 3
          /\ duplicates.groups[i].size = MaxSize
          /\ duplicates.groups[i].wasted_space = 2 * MaxSize
          /\ \A p \in Range(duplicates.groups[i].paths) : disk[p].len # MaxSize

\* C13: the list find_duplicates returns is in non-increasing order of
\* wasted_space, whatever the order of ingestion and of map iteration.
C13_SortedByWastedSpace ==
    duplicates.done =>
        \A i \in 1..Len(duplicates.groups), j \in 1..Len(duplicates.groups) :
            i < j => duplicates.groups[i].wasted_space >= duplicates.groups[j].wasted_space

\* two groups of different wasted_space, the one of the smaller size group
\* ingested first
C13_Witness ==
    /\ duplicates.done
    /\ Len(duplicates.groups) = 2
    /\ duplicates.groups[1].wasted_space > duplicates.groups[2].wasted_space
    /\ duplicates.groups[1].size > duplicates.groups[2].size

\* the paths whose quick hash or full hash could not be computed
Unreadable ==
    (QuickHashed(finder) \ duplicates.quick_ok)
        \cup (FullHashed(finder, disk, duplicates.quick_ok) \ duplicates.full_ok)

\* the files of the size group sz that were read at both stages and hold c
ReadableWith(sz, c) ==
    { p \in Range(finder.size_groups[sz]) :
        p \in duplicates.quick_ok /\ p \in duplicates.full_ok /\ disk[p] = c }

\* C14: a file whose quick or full hash cannot be computed is in no returned
\* group and leaves no warning; the readable files of its candidate set are
\* still grouped: two or more of them with one content make one group.
C14_UnreadableDropped ==
    duplicates.done =>
        /\ \A p \in Unreadable : \A S \in GroupSets : p \notin S
        /\ warnings = <<>>
        /\ \A sz \in DOMAIN finder.size_groups, c \in Contents :
              Cardinality(ReadableWith(sz, c)) >= 2 => ReadableWith(sz, c) \in GroupSets

\* three identical files of one size: the full hash of one fails, the other two
\* are grouped; and a file whose quick hash fails
C14_Witness ==
    /\ duplicates.done
    /\ Len(duplicates.groups) = 1
    /\ Len(duplicates.groups[1].paths) = 2
    /\ \E p \in FullHashed(finder, disk, duplicates.quick_ok) \ duplicates.full_ok :
          /\ IngestedSize(p) = duplicates.groups[1].size
          /\ disk[p] = disk[duplicates.groups[1].paths[1]]
    /\ QuickHashed(finder) \ duplicates.quick_ok # {}

(***************************************************************************)
(* Properties of the path pool                                             *)
(***************************************************************************)
\* the distinct paths of the first n intern calls
SeenBefore(n) == { interned[j].path : j \in 1..n }

\* the ids issued so far
IssuedIds == { interned[i].id : i \in 1..Len(interned) }

\* C22: intern is idempotent and assigns ids in first-sight order: a path seen
\* before gets its earlier id and the pool is left unchanged, the k-th distinct
\* path (from 0) gets id k, the issued ids are exactly 0..len-1 and distinct
\* paths have distinct ids.
C22_InternIdempotentInOrder ==
    /\ \A i \in 1..Len(interned) :
          IF interned[i].path \in SeenBefore(i - 1)
          THEN /\ ~interned[i].changed
               /\ \A j \in 1..(i - 1) :
                     interned[j].path = interned[i].path => interned[j].id = interned[i].id
          ELSE /\ interned[i].changed
               /\ interned[i].id = Cardinality(SeenBefore(i - 1))
    /\ IssuedIds = 0..(PoolLen(pathPool) - 1)
    /\ PoolLen(pathPool) = Cardinality(SeenBefore(Len(interned)))
    /\ \A i \in 1..Len(interned), j \in 1..Len(interned) :
          (interned[i].path = interned[j].path) <=> (interned[i].id = interned[j].id)

\* /a, /b, /a again, then /a/s: the third call returns 0 and changes nothing,
\* the fourth gets id 2
C22_Witness ==
    /\ Len(interned) = 4
    /\ [i \in 1..4 |-> interned[i].path] = <<"/a", "/b", "/a", "/a/s">>
    /\ [i \in 1..4 |-> interned[i].id] = <<0, 1, 0, 2>>
    /\ ~interned[3].changed

\* C23: for every path p interned at any point get(intern(p)) returns p, and
\* keeps returning p after any number of later intern calls; get(id) for an id
\* never issued by the pool returns None.
C23_GetRoundTrip ==
    /\ \A i \in 1..Len(interned) :
          PoolGet(pathPool, interned[i].id) = Some(interned[i].path)
    /\ \A id \in (0..MaxInterns) \ IssuedIds : PoolGet(pathPool, id) = None
    /\ lookup.done =>
          IF lookup.id \in 0..(lookup.len - 1)
          THEN \E i \in 1..Len(interned) :
                   interned[i].id = lookup.id /\ lookup.result = Some(interned[i].path)
          ELSE lookup.result = None

\* get(0) returned the first path after three later interns, two of them new
C23_Witness ==
    /\ Len(interned) = 4
    /\ PoolLen(pathPool) = 3
    /\ lookup.done
    /\ lookup.id = 0
    /\ lookup.len = 3
    /\ lookup.result = Some(interned[1].path)

(***************************************************************************)
(* Properties of the size categorizer                                      *)
(***************************************************************************)
\* the boundary of the bucket categorize returned
ReturnedBoundary ==
    sizeCategorizer.buckets[CHOOSE i \in 1..Len(sizeCategorizer.buckets) :
                                sizeCategorizer.buckets[i][2] = categorized.label][1]

\* the boundaries of the categorizer
Boundaries == { sizeCategorizer.buckets[i][1] : i \in 1..Len(sizeCategorizer.buckets) }

\* C24: SizeCategorizer assigns every size s to the bucket whose boundary is
\* the greatest boundary <= s, for the default boundaries and for every custom
\* list (sorted and deduplicated first), also for sizes below the smallest
\* custom boundary.
C24_GreatestBoundaryBelow ==
    categorized.status # "none" =>
        /\ categorized.status = "ok"
        /\ ReturnedBoundary <= categorized.size
        /\ \A b \in Boundaries : b <= categorized.size => b <= ReturnedBoundary

(***************************************************************************)
(* Properties of ShardedCollector::finalize                                *)
(***************************************************************************)
\* some handle from get_shard is still alive
SomeHandleAlive == \E i \in ShardIds : handles[i] > 0

\* C25: finalize panics instead of returning results whenever a shard is still
\* referenced outside the collector (a handle from get_shard is alive); it
\* returns results only when it holds the sole reference to every shard.
C25_PanicsWhenShared ==
    [][(sharded.status = "open" /\ sharded'.status # "open") =>
          /\ SomeHandleAlive => sharded'.status = "panicked"
          /\ sharded'.status = "done" => ~SomeHandleAlive]_vars

\* finalize has panicked over a shard that processed a file and whose handle
\* is still alive
C25_Witness ==
    /\ sharded.status = "panicked"
    /\ \E i \in ShardIds : handles[i] > 0 /\ shardFed[i] # <<>>

\* a freshly created collector with the configuration of collector c
FreshLike(c) == CollectorNew(c.top_n, c.should_collect_tops)

\* C29: merging with an empty collector is neutral: for every collector state
\* s, merging s with a freshly created collector, on either side, finalizes to
\* the same buckets, top_files and top_dirs as s alone.
C29_MergeWithEmptyNeutral ==
    \A i \in ShardIds :
        /\ Finalize(MergeCollectors(shards[i], FreshLike(shards[i])), TotalFedBytes)
              = Finalize(shards[i], TotalFedBytes)
        /\ Finalize(MergeCollectors(FreshLike(shards[i]), shards[i]), TotalFedBytes)
              = Finalize(shards[i], TotalFedBytes)

\* C30: finalize returns a CollectionResults for every shard count the
\* constructor accepts: a collector created with num_shards = 0 finalizes to
\* empty results.
C30_ZeroShardsFinalize ==
    (Len(shards) = 0 /\ sharded.status # "open") =>
        /\ sharded.status = "done"
        /\ sharded.results = NoResults

(***************************************************************************)
(* Frame properties of the heap and of process_file                        *)
(***************************************************************************)
\* C26: when the heap is full, pushing an item equal to or less than the
\* current minimum leaves the heap unchanged; only a strictly greater item
\* evicts the minimum.  So in the file top-N, ordered by size alone, a later
\* file of the size of the current minimum never displaces a retained file.
C26_TiesKeepTheRetained ==
    [][(/\ Len(fed') = Len(fed) + 1
        /\ collector.should_collect_tops
        /\ HeapLen(collector.top_files_heap) >= collector.top_files_heap.capacity) =>
          LET h == collector.top_files_heap
              m == fed'[Len(fed')]
          IN  IF \E min \in HeapPeek(h) : m.size > min.size
              THEN \E min \in HeapPeek(h) :
                      collector'.top_files_heap.heap
                        = (h.heap (-) BagOf(min)) (+) BagOf(FileWithSize(m.path, m.size))
              ELSE collector'.top_files_heap = h]_vars

\* capacity 1: the second file has the size of the first and another path, and
\* the heap still holds the first
C26_Witness ==
    /\ collector.should_collect_tops
    /\ collector.top_n = 1
    /\ Len(fed) = 2
    /\ fed[1].size = fed[2].size
    /\ fed[1].path # fed[2].path
    /\ collector.top_files_heap.heap = BagOf(FileWithSize(fed[1].path, fed[1].size))

\* C27: with collect-tops disabled, process_file changes only the category
\* statistics: the file top-N heap, the directory accumulator and the path
\* pool are empty after any sequence of process_file calls.
C27_OnlyCategoryStats ==
    ~collector.should_collect_tops =>
        /\ HeapIsEmpty(collector.top_files_heap)
        /\ collector.dir_accumulator = EmptyMap
        /\ collector.path_pool = PoolNew
        /\ collector = [CollectorNew(collector.top_n, FALSE)
                          EXCEPT !.category_stats = collector.category_stats]

\* collect-tops off with capacity MaxTopN, three files processed
C27_Witness ==
    /\ ~collector.should_collect_tops
    /\ collector.top_n = MaxTopN
    /\ Len(fed) = 3
    /\ StatsTotal(collector.category_stats, 2) = 3

(***************************************************************************)
(* The order of the hashing stages                                         *)
(***************************************************************************)
\* the size group path p was ingested in
GroupOf(p) == finder.size_groups[IngestedSize(p)]

\* C28: a full hash is computed for a file only after its quick hash was
\* computed with success, and only if its size bucket has 2 or more members
\* and another file of the bucket has the same quick hash; no hash of any kind
\* is computed for a file that is alone in its size bucket.
C28_StagedHashing ==
    duplicates.done =>
        /\ \A p \in duplicates.full_tried :
              /\ p \in duplicates.quick_ok
              /\ Len(GroupOf(p)) >= 2
              /\ \E q \in Range(GroupOf(p)) \ {p} :
                    /\ q \in duplicates.quick_ok
                    /\ QuickHash(disk[q]) = QuickHash(disk[p])
        /\ \A p \in Ingested :
              Len(GroupOf(p)) < 2 =>
                  p \notin duplicates.quick_tried \cup duplicates.full_tried
        /\ duplicates.quick_ok \subseteq duplicates.quick_tried
        /\ duplicates.full_ok \subseteq duplicates.full_tried

\* four files: one alone in its size bucket and never read; three in one
\* bucket, all quick-hashed, of which only the two of equal prefix are
\* full-hashed
C28_Witness ==
    /\ duplicates.done
    /\ Ingested = DupPaths
    /\ Cardinality(duplicates.quick_tried) = 3
    /\ duplicates.quick_ok = duplicates.quick_tried
    /\ Cardinality(duplicates.full_tried) = 2
    /\ \E p \in Ingested : Len(GroupOf(p)) = 1

====
